---- MODULE Spec2Model ----
(***************************************************************************)
(* The persistence layer of the vela server: one engine per table (inits,  *)
(* initsteps, logs, hooks, workers) over a Postgres or a Sqlite backend.   *)
(* A behaviour follows one engine: `kind` names its table and is fixed by  *)
(* Init, the tables being independent of one another.                      *)
(***************************************************************************)
EXTENDS Integers, Sequences, FiniteSets, TLC

(* ------------------------------ bounds --------------------------------- *)

\* rows an inits / initsteps / hooks table may hold
MaxRows == 3
\* rows the logs table may hold
MaxLogs == 2
\* rows the workers table may hold
MaxWorkers == 2
\* largest id an entity handed to Create may carry
MaxId == 2
\* values the Postgres id sequence may hand out
MaxSerial == 4
\* characters a source address may have
MaxAddrLen == 5

(* ----------------------------- constants ------------------------------- *)

DriverPostgres == "postgres"
DriverSqlite == "sqlite3"

\* the DDL texts of the workers table
CreatePostgresTable == "CREATE TABLE IF NOT EXISTS workers (id SERIAL PRIMARY KEY, UNIQUE(hostname))"
CreateSqliteTable == "CREATE TABLE IF NOT EXISTS workers (id INTEGER PRIMARY KEY AUTOINCREMENT, UNIQUE(hostname))"

Nil == "nil"
ErrRecordNotFound == "record not found"
ErrConstraint == "constraint violation"
ErrTransport == "transport error"
ErrValidate == "invalid log"

Kinds == {"inits", "initsteps", "logs", "hooks", "workers"}
Procs == {1, 2}

\* the parent foreign keys of a log
ParentKeys == {"init_id", "init_step_id", "service_id", "step_id"}

VARIABLES
    kind,      \* the table this engine serves
    table,     \* "absent", or the dialect of the DDL that created the table
    rows,      \* the table's rows, in the order the backend scans them
    serial,    \* last value handed out by the Postgres id sequence
    created,   \* history: <<entity passed, row stored>> of every successful Create
    lastOp,    \* the last completed call: operation, argument, result, error
    pc,        \* per worker-registration process: "idle" or "inserting"
    arg,       \* per process: the worker whose INSERT is in flight
    conc,      \* history: the last pair of overlapping Creates for one hostname
    setup      \* the source Setup a caller validates

vars == <<kind, table, rows, serial, created, lastOp, pc, arg, conc, setup>>

(* ------------------------------ entities ------------------------------- *)

InitEntities ==
    [id : 0..MaxId, repo_id : {1}, build_id : {1, 2}, number : {1},
     reporter : {"Foobar Runtime"}, name : {"foobar"}, mimetype : {"text/plain"}]

\* the foreign-key combinations a caller may hand over: the four owned logs,
\* and logs with no parent or with more than one
ParentCombos ==
    {<<1, 0, 0, 0>>, <<0, 1, 0, 0>>, <<0, 0, 1, 0>>, <<0, 0, 0, 1>>,
     <<0, 0, 0, 0>>, <<1, 0, 1, 0>>, <<0, 1, 0, 1>>, <<1, 1, 1, 1>>}

LogEntities ==
    {[id |-> i, repo_id |-> 1, build_id |-> 1,
      init_id |-> c[1], init_step_id |-> c[2], service_id |-> c[3], step_id |-> c[4],
      data |-> d] : i \in {1}, c \in ParentCombos, d \in {<<>>, <<7>>}}

HookEntities == [id : 0..1, repo_id : {1, 2}, number : {1, 2}]

WorkerEntities == [id : {0}, hostname : {"worker_0", "worker_1"}, address : {"a", "b"}]

Limit(k) ==
    CASE k = "logs" -> MaxLogs
      [] k = "workers" -> MaxWorkers
      [] OTHER -> MaxRows

(* ------------------------------ backend -------------------------------- *)

Max(S) == IF S = {} THEN 0 ELSE CHOOSE x \in S : \A y \in S : y <= x

Ids(rs) == {rs[i].id : i \in DOMAIN rs}

\* the id column's generator: SERIAL draws the sequence's next value,
\* AUTOINCREMENT takes one more than the largest id the table holds
NextId(dialect, rs, ser) ==
    IF dialect = DriverPostgres THEN ser + 1 ELSE Max(Ids(rs)) + 1

\* no constraint on the hostname
UniqueHostname_None(rs, row) == TRUE

\* the constraint on the address column instead
UniqueHostname_Address(rs, row) ==
    \A i \in DOMAIN rs : rs[i].address # row.address

\* UNIQUE(hostname): no stored row has the hostname of the new one
UniqueHostname(rs, row) ==
    \A i \in DOMAIN rs : rs[i].hostname # row.hostname

\* PRIMARY KEY: no stored row has the id of the new one
PrimaryKey(rs, row) ==
    \A i \in DOMAIN rs : rs[i].id # row.id

\* a log needs a parent, and may have several
ValidLog_AtLeastOne(l) == \E c \in ParentKeys : l[c] # 0

\* a log is owned by exactly one parent
ValidLog(l) == Cardinality({c \in ParentKeys : l[c] # 0}) = 1

\* an INSERT that hands the backend the id the entity carries, and lets it
\* generate one only for an entity that carries none
Insert_CarriedId(k, dialect, rs, ser, e) ==
    LET row == IF e.id # 0 THEN e ELSE [e EXCEPT !.id = NextId(dialect, rs, ser)]
        ok  == PrimaryKey(rs, row) /\ (k = "workers" => UniqueHostname(rs, row))
    IN  [rows   |-> IF ok THEN Append(rs, row) ELSE rs,
         serial |-> IF dialect = DriverPostgres /\ e.id = 0 THEN ser + 1 ELSE ser,
         row    |-> row,
         err    |-> IF ok THEN Nil ELSE ErrConstraint]

\* one INSERT statement: the backend generates the id, checks the table's
\* constraints and appends the row, or rejects the statement whole
Insert(k, dialect, rs, ser, e) ==
    LET row == [e EXCEPT !.id = NextId(dialect, rs, ser)]
        ok  == PrimaryKey(rs, row) /\ (k = "workers" => UniqueHostname(rs, row))
    IN  [rows   |-> IF ok THEN Append(rs, row) ELSE rs,
         serial |-> IF dialect = DriverPostgres THEN ser + 1 ELSE ser,
         row    |-> row,
         err    |-> IF ok THEN Nil ELSE ErrConstraint]

\* the zero value of Setup
NoSetup == [Driver |-> "", Address |-> <<>>, ClientID |-> "", ClientSecret |-> "",
            ServerAddress |-> "", StatusContext |-> "", WebUIAddress |-> ""]

\* no overlapping Creates seen
NoRace == [host |-> "", free |-> FALSE, address |-> [q \in Procs |-> ""],
           res |-> [q \in Procs |-> "none"]]

(* --------------------------- initial states ---------------------------- *)

Init ==
    /\ kind \in Kinds
    /\ table \in IF kind = "workers" THEN {"absent"} ELSE {DriverPostgres, DriverSqlite}
    /\ rows = <<>>
    /\ serial = 0
    /\ created = <<>>
    /\ lastOp = [op |-> "none", arg |-> Nil, res |-> Nil, err |-> Nil]
    /\ pc = [p \in Procs |-> "idle"]
    /\ arg = [p \in Procs |-> Nil]
    /\ conc = NoRace
    /\ setup = NoSetup

(* ----------------------- Create (all but workers) ---------------------- *)

\* Create for the table k: validate, then one INSERT; fail stands for a
\* statement the backend never answers
Create(k, e, fail) ==
    /\ kind = k
    /\ Len(rows) < Limit(k)
    /\ serial < MaxSerial
    /\ IF k = "logs" /\ ~ValidLog(e)
       THEN /\ lastOp' = [op |-> "Create", arg |-> e, res |-> Nil, err |-> ErrValidate]
            /\ UNCHANGED <<rows, serial, created>>
       ELSE IF fail
       THEN /\ lastOp' = [op |-> "Create", arg |-> e, res |-> Nil, err |-> ErrTransport]
            /\ UNCHANGED <<rows, serial, created>>
       ELSE LET r == Insert(k, table, rows, serial, e)
            IN  /\ rows' = r.rows
                /\ serial' = r.serial
                /\ created' = IF r.err = Nil
                              THEN Append(created, [passed |-> e, stored |-> r.row])
                              ELSE created
                /\ lastOp' = [op |-> "Create", arg |-> e, res |-> Nil, err |-> r.err]
    /\ UNCHANGED <<kind, setup, table, pc, arg, conc>>

CreateInit == \E e \in InitEntities, fail \in BOOLEAN : Create("inits", e, fail)

CreateInitStep == \E e \in InitEntities, fail \in BOOLEAN : Create("initsteps", e, fail)

CreateLog == \E e \in LogEntities, fail \in BOOLEAN : Create("logs", e, fail)

CreateHook == \E e \in HookEntities, fail \in BOOLEAN : Create("hooks", e, fail)

(* -------------------------------- reads -------------------------------- *)

\* a count of the distinct builds, not of the rows
Count_DistinctBuilds(rs) == Cardinality({rs[i].build_id : i \in DOMAIN rs})

\* SELECT count(*) FROM "<table>"
Count(rs) == Len(rs)

\* the rows in descending order
List_Descending(rs) == [i \in 1..Len(rs) |-> rs[Len(rs) + 1 - i]]

\* SELECT * FROM "<table>": every row, in the backend's scan order
List(rs) == [i \in 1..Len(rs) |-> rs[i]]

Read(k, op, res) ==
    /\ kind = k
    /\ lastOp' = [op |-> op, arg |-> Nil, res |-> res, err |-> Nil]
    /\ UNCHANGED <<kind, setup, table, rows, serial, created, pc, arg, conc>>

CountInits == Read("inits", "Count", Count(rows))

CountInitSteps == Read("initsteps", "Count", Count(rows))

CountLogs == Read("logs", "Count", Count(rows))

ListInits == Read("inits", "List", List(rows))

ListInitSteps == Read("initsteps", "List", List(rows))

(* ------------------------- logs: get for parent ------------------------ *)

\* the ids a parent entity handed to a lookup may have; 0 is the id of an
\* entity that was never stored
ParentIds == {0, 1}

\* a predicate on step_id whatever the parent's kind
Matching_StepKey(rs, key, id) == {i \in DOMAIN rs : rs[i]["step_id"] = id}

\* WHERE <key> = ?: the rows the predicate selects
Matching(rs, key, id) == {i \in DOMAIN rs : rs[i][key] = id}

\* decode of a logs row: a row owned by exactly one parent becomes the log,
\* any other row is refused
DecodeLog(row) ==
    IF ValidLog(row) THEN [log |-> row, err |-> Nil] ELSE [log |-> Nil, err |-> ErrValidate]

\* SELECT * FROM "logs" WHERE <key> = $1 LIMIT 1, the statement names no order:
\* any one matching row, or the not-found error when none matches
GetLogFor(op, key) ==
    /\ kind = "logs"
    /\ \E id \in ParentIds :
        LET m == Matching(rows, key, id)
        IN  IF m = {}
            THEN lastOp' = [op |-> op, arg |-> id, res |-> Nil, err |-> ErrRecordNotFound]
            ELSE \E i \in m :
                    lastOp' = [op |-> op, arg |-> id,
                               res |-> DecodeLog(rows[i]).log, err |-> DecodeLog(rows[i]).err]
    /\ UNCHANGED <<kind, setup, table, rows, serial, created, pc, arg, conc>>

GetLogForInit == GetLogFor("GetLogForInit", "init_id")

GetLogForInitStep == GetLogFor("GetLogForInitStep", "init_step_id")

GetLogForService == GetLogFor("GetLogForService", "service_id")

GetLogForStep == GetLogFor("GetLogForStep", "step_id")

\* the key a lookup selects on
KeyOf(op) ==
    CASE op = "GetLogForInit" -> "init_id"
      [] op = "GetLogForInitStep" -> "init_step_id"
      [] op = "GetLogForService" -> "service_id"
      [] op = "GetLogForStep" -> "step_id"

GetOps == {"GetLogForInit", "GetLogForInitStep", "GetLogForService", "GetLogForStep"}

\* a lookup answered by rows the backend hands back without a Create having
\* stored them (the mocked Postgres of the tests): the row is decoded as is
GetLogFromRow ==
    /\ kind = "logs"
    /\ \E l \in LogEntities :
        lastOp' = [op |-> "Decode", arg |-> l, res |-> DecodeLog(l).log, err |-> DecodeLog(l).err]
    /\ UNCHANGED <<kind, setup, table, rows, serial, created, pc, arg, conc>>

(* -------------------------------- hooks -------------------------------- *)

\* the repos a count may be asked for: 3 owns no hook, 0 was never stored
Repos == [id : 0..3]

\* a count without the repo_id predicate
HooksForRepo_All(rs, r) == Len(rs)

\* Table(hooks).Where("repo_id = ?", r.GetID()).Count(&h)
HooksForRepo(rs, r) == Cardinality({i \in DOMAIN rs : rs[i].repo_id = r.id})

\* CountHooksForRepo(r): fail stands for a query the backend never answers;
\* h is the zero value unless the query filled it in, and is returned next to
\* the query's error
CountHooksForRepo(r, fail) ==
    /\ kind = "hooks"
    /\ lastOp' = [op |-> "CountHooksForRepo", arg |-> [repo |-> r, fail |-> fail],
                  res |-> IF fail THEN 0 ELSE HooksForRepo(rows, r),
                  err |-> IF fail THEN ErrTransport ELSE Nil]
    /\ UNCHANGED <<kind, setup, table, rows, serial, created, pc, arg, conc>>

(* ------------------------------- workers ------------------------------- *)

Drivers == {DriverPostgres, DriverSqlite, "", "mysql"}

\* a switch whose default is the Postgres statement
DDLFor_DefaultPostgres(driver) ==
    IF driver = DriverSqlite THEN CreateSqliteTable ELSE CreatePostgresTable

\* the switch of CreateWorkerTable: the statement the driver name selects
DDLFor(driver) ==
    IF driver = DriverPostgres THEN CreatePostgresTable ELSE CreateSqliteTable

DialectOf(ddl) == IF ddl = CreatePostgresTable THEN DriverPostgres ELSE DriverSqlite

\* CREATE TABLE without the guard: an error when the table is there
ExecDDL_NoGuard(tbl, rs, ddl) ==
    [table |-> IF tbl = "absent" THEN DialectOf(ddl) ELSE tbl, rows |-> rs,
     err |-> IF tbl = "absent" THEN Nil ELSE "table workers already exists"]

\* CREATE TABLE IF NOT EXISTS: creates the table when it is absent and is a
\* no-op otherwise; the table keeps the dialect of the statement that made it
ExecDDL(tbl, rs, ddl) ==
    [table |-> IF tbl = "absent" THEN DialectOf(ddl) ELSE tbl, rows |-> rs, err |-> Nil]

CreateWorkerTable(driver) ==
    /\ kind = "workers"
    /\ LET r == ExecDDL(table, rows, DDLFor(driver))
       IN  /\ table' = r.table
           /\ rows' = r.rows
           /\ lastOp' = [op |-> "CreateWorkerTable", arg |-> driver,
                         res |-> <<DDLFor(driver)>>, err |-> r.err]
    /\ UNCHANGED <<kind, setup, serial, created, pc, arg, conc>>

Hostnames(rs) == {rs[i].hostname : i \in DOMAIN rs}

Other(p) == CHOOSE q \in Procs : q # p

Pending == [q \in Procs |-> "pending"]

InFlight == Cardinality({q \in Procs : pc[q] = "inserting"})

\* a caller enters CreateWorker: the worker is encoded, its INSERT not yet
\* executed. The table exists: it is created at startup, before any traffic
CreateWorkerBegin(p, w) ==
    /\ kind = "workers"
    /\ table # "absent"
    /\ pc[p] = "idle"
    /\ Len(rows) + InFlight < MaxWorkers + 1
    /\ serial + InFlight < MaxSerial
    /\ pc' = [pc EXCEPT ![p] = "inserting"]
    /\ arg' = [arg EXCEPT ![p] = w]
    /\ conc' = IF pc[Other(p)] = "inserting" /\ arg[Other(p)].hostname = w.hostname
               THEN [host |-> w.hostname, free |-> w.hostname \notin Hostnames(rows),
                     address |-> [q \in Procs |-> IF q = p THEN w.address
                                                  ELSE arg[q].address],
                     res |-> Pending]
               ELSE IF \E q \in Procs : conc.res[q] = "pending"
               THEN conc
               ELSE NoRace
    /\ UNCHANGED <<kind, setup, table, rows, serial, created, lastOp>>

\* the backend executes the INSERT of p's call, atomically, and the call
\* returns the statement's outcome
CreateWorkerExec(p) ==
    /\ kind = "workers"
    /\ pc[p] = "inserting"
    /\ LET r == Insert("workers", table, rows, serial, arg[p])
       IN  /\ rows' = r.rows
           /\ serial' = r.serial
           /\ created' = IF r.err = Nil
                         THEN Append(created, [passed |-> arg[p], stored |-> r.row])
                         ELSE created
           /\ lastOp' = [op |-> "CreateWorker", arg |-> arg[p], res |-> Nil, err |-> r.err]
           /\ conc' = IF conc.res[p] = "pending"
                      THEN [conc EXCEPT !.res[p] = r.err]
                      ELSE conc
    /\ pc' = [pc EXCEPT ![p] = "idle"]
    /\ arg' = [arg EXCEPT ![p] = Nil]
    /\ UNCHANGED <<kind, setup, table>>

\* SELECT * FROM "workers" WHERE hostname = ? LIMIT 1
GetWorkerForHostname(h) ==
    /\ kind = "workers"
    /\ table # "absent"
    /\ LET m == {i \in DOMAIN rows : rows[i].hostname = h}
       IN  IF m = {}
           THEN lastOp' = [op |-> "GetWorkerForHostname", arg |-> h, res |-> Nil,
                           err |-> ErrRecordNotFound]
           ELSE \E i \in m :
                   lastOp' = [op |-> "GetWorkerForHostname", arg |-> h, res |-> rows[i],
                              err |-> Nil]
    /\ UNCHANGED <<kind, setup, table, rows, serial, created, pc, arg, conc>>

WorkerNext ==
    \/ \E d \in Drivers : CreateWorkerTable(d)
    \/ \E p \in Procs, w \in WorkerEntities : CreateWorkerBegin(p, w)
    \/ \E p \in Procs : CreateWorkerExec(p)
    \/ \E h \in {"worker_0", "worker_1"} : GetWorkerForHostname(h)

Next ==
    \/ CreateInit
    \/ CreateInitStep
    \/ CreateLog
    \/ CreateHook
    \/ CountInits
    \/ CountInitSteps
    \/ CountLogs
    \/ ListInits
    \/ ListInitSteps
    \/ GetLogForInit
    \/ GetLogForInitStep
    \/ GetLogForService
    \/ GetLogForStep
    \/ GetLogFromRow
    \/ \E r \in Repos, fail \in BOOLEAN : CountHooksForRepo(r, fail)
    \/ WorkerNext

Spec == Init /\ [][Next]_vars

(* ---------------------------- source setup ---------------------------- *)

DriverGithub == "github"
DriverGitlab == "gitlab"

\* an address is a sequence of characters
AddrChars == {"h", ":", "/"}

Addresses == UNION {[1..n -> AddrChars] : n \in 0..MaxAddrLen}

Setups ==
    [Driver : {"", DriverGithub, DriverGitlab, "bitbucket"},
     Address : Addresses,
     ClientID : {"", "id"}, ClientSecret : {"", "secret"},
     ServerAddress : {"", "https://vela"}, StatusContext : {"", "continuous-integration/vela"},
     WebUIAddress : {"", "https://ui"}]

\* strings.Contains(s, sub)
Contains(s, sub) ==
    \E i \in 0..(Len(s) - Len(sub)) : \A j \in 1..Len(sub) : s[i + j] = sub[j]

\* strings.HasSuffix(s, suf)
HasSuffix(s, suf) ==
    /\ Len(s) >= Len(suf)
    /\ \A j \in 1..Len(suf) : s[Len(s) - Len(suf) + j] = suf[j]

\* a Validate that takes the github driver alone for valid
Validate_GithubOnly(s) ==
    LET e(msg) == [err |-> msg, setup |-> s]
    IN  IF s.Driver = "" THEN e("no source driver provided")
        ELSE IF s.Driver # DriverGithub THEN e("invalid source driver provided")
        ELSE IF Len(s.Address) = 0 THEN e("no source address provided")
        ELSE IF ~Contains(s.Address, <<":", "/", "/">>)
             THEN e("source address must be fully qualified (<scheme>://<host>)")
        ELSE IF HasSuffix(s.Address, <<"/">>)
             THEN e("source address must not have trailing slash")
        ELSE IF s.ClientID = "" THEN e("no source client id provided")
        ELSE IF s.ClientSecret = "" THEN e("no source client secret provided")
        ELSE IF s.StatusContext = "" THEN e("no source status context provided")
        ELSE e(Nil)

\* Setup.Validate: the checks in the order of the code, the first that fails
\* returns its error (the invalid-driver message names s.Driver, which the
\* setup handed back carries); the Setup is read, never written
Validate(s) ==
    LET e(msg) == [err |-> msg, setup |-> s]
    IN  IF s.Driver = "" THEN e("no source driver provided")
        ELSE IF s.Driver \notin {DriverGithub, DriverGitlab}
             THEN e("invalid source driver provided")
        ELSE IF Len(s.Address) = 0 THEN e("no source address provided")
        ELSE IF ~Contains(s.Address, <<":", "/", "/">>)
             THEN e("source address must be fully qualified (<scheme>://<host>)")
        ELSE IF HasSuffix(s.Address, <<"/">>)
             THEN e("source address must not have trailing slash")
        ELSE IF s.ClientID = "" THEN e("no source client id provided")
        ELSE IF s.ClientSecret = "" THEN e("no source client secret provided")
        ELSE IF s.StatusContext = "" THEN e("no source status context provided")
        ELSE e(Nil)

InitSetup ==
    /\ kind = "source"
    /\ table = "absent"
    /\ rows = <<>>
    /\ serial = 0
    /\ created = <<>>
    /\ lastOp = [op |-> "none", arg |-> Nil, res |-> Nil, err |-> Nil]
    /\ pc = [p \in Procs |-> "idle"]
    /\ arg = [p \in Procs |-> Nil]
    /\ conc = NoRace
    /\ setup \in Setups

\* a caller validates its Setup
ValidateSetup ==
    /\ kind = "source"
    /\ lastOp' = [op |-> "Validate", arg |-> setup, res |-> Nil, err |-> Validate(setup).err]
    /\ setup' = Validate(setup).setup
    /\ UNCHANGED <<kind, table, rows, serial, created, pc, arg, conc>>

NextSetup == ValidateSetup

SpecSetup == InitSetup /\ [][NextSetup]_vars

(* ------------------------------- claims -------------------------------- *)

\* the entities handed to the successful Creates, in creation order
Passed == [i \in 1..Len(created) |-> created[i].passed]

\* C1: on inits, initsteps and logs, under either dialect, the table holds
\* one row per successful Create and Count returns the number of successful
\* Creates; failed Creates and reads leave that number as it was.
C1_CountIsNumberOfCreates ==
    kind \in {"inits", "initsteps", "logs"} =>
        /\ Len(rows) = Len(created)
        /\ lastOp.op = "Count" => lastOp.res = Len(created)

\* C1 witness: Count answered 2 on a Postgres logs table after two Creates.
C1_Witness ==
    /\ kind = "logs" /\ table = DriverPostgres
    /\ lastOp.op = "Count" /\ lastOp.res = 2 /\ Len(created) = 2

OwnKey(l) == CHOOSE c \in ParentKeys : l[c] # 0

\* the stored logs whose key of the last lookup holds the id looked up
Hits == {i \in DOMAIN rows : rows[i][KeyOf(lastOp.op)] = lastOp.arg}

WithHostname(h) == {i \in DOMAIN rows : rows[i].hostname = h}

\* C4: no two rows of the workers table share a hostname; every worker a
\* Create stored stays in the table as it was passed, and is what a lookup
\* of its hostname returns; a Create fails only against a stored worker of
\* the same hostname, with a constraint violation, and adds or changes no row.
C4_HostnameStaysUnique ==
    kind = "workers" =>
        /\ \A i, j \in DOMAIN rows : rows[i].hostname = rows[j].hostname => i = j
        /\ Len(rows) = Len(created)
        /\ \A i \in DOMAIN rows :
            /\ rows[i] = created[i].stored
            /\ rows[i].hostname = created[i].passed.hostname
            /\ rows[i].address = created[i].passed.address
        /\ (lastOp.op = "CreateWorker" /\ lastOp.err # Nil) =>
            /\ lastOp.err = ErrConstraint
            /\ WithHostname(lastOp.arg.hostname) # {}
        /\ (lastOp.op = "GetWorkerForHostname" /\ WithHostname(lastOp.arg) # {}) =>
            /\ lastOp.err = Nil
            /\ \E i \in WithHostname(lastOp.arg) : lastOp.res = created[i].stored

\* C4 witness: a second worker of a stored hostname, with another address,
\* was refused, and the table still holds the first alone.
C4_Witness ==
    /\ kind = "workers" /\ Len(rows) = 1
    /\ lastOp.op = "CreateWorker" /\ lastOp.err = ErrConstraint
    /\ lastOp.arg.hostname = rows[1].hostname
    /\ lastOp.arg.address # rows[1].address
    /\ rows[1].address = created[1].passed.address

\* both Creates of the last overlapping pair have returned
RaceOver == \A q \in Procs : conc.res[q] \notin {"pending", "none"}

\* C5: of two overlapping Creates for one hostname that was not stored when
\* they began, exactly one returns nil and the other a constraint violation,
\* and the table holds one row for the hostname, the winner's; if the
\* hostname was stored already, both fail and its row stays the only one.
C5_OneOfTwoConcurrentCreatesWins ==
    (kind = "workers" /\ RaceOver) =>
        /\ Cardinality(WithHostname(conc.host)) = 1
        /\ conc.free =>
            \E w \in Procs :
                /\ conc.res[w] = Nil
                /\ conc.res[Other(w)] = ErrConstraint
                /\ \A i \in WithHostname(conc.host) : rows[i].address = conc.address[w]
        /\ ~conc.free => \A q \in Procs : conc.res[q] = ErrConstraint

\* C5 witness: two overlapping Creates for a free hostname, with different
\* addresses, have both returned, and the one that began first lost.
C5_Witness ==
    /\ kind = "workers" /\ RaceOver /\ conc.free
    /\ conc.address[1] # conc.address[2]
    /\ conc.res[1] = ErrConstraint /\ conc.res[2] = Nil


\* a step of CreateWorkerTable: the call that completes is CreateWorkerTable,
\* and no process moves (a step that completes a Create moves its process)
CreateWorkerTableStep ==
    kind = "workers" /\ lastOp'.op = "CreateWorkerTable" /\ pc' = pc

\* C6: no invocation of CreateWorkerTable returns an error, whatever the
\* driver and however often it ran before; it leaves the rows as they are,
\* and leaves a table that exists as it is.
C6_CreateTableIsIdempotent ==
    [][CreateWorkerTableStep =>
          /\ lastOp'.err = Nil
          /\ rows' = rows
          /\ table # "absent" => table' = table
          /\ table = "absent" => (table' # "absent" /\ rows' = <<>>)]_vars

\* C6 witness: CreateWorkerTable ran again on a table that holds a worker.
C6_Witness ==
    /\ kind = "workers" /\ Len(rows) >= 1
    /\ lastOp.op = "CreateWorkerTable" /\ lastOp.err = Nil

\* C7: CreateWorkerTable executes exactly one statement: the Postgres DDL for
\* the Postgres driver name, the Sqlite DDL for the Sqlite driver name and
\* for every other driver name, the empty one included, which is no error.
C7_DriverSelectsDDL ==
    lastOp.op = "CreateWorkerTable" =>
        /\ Len(lastOp.res) = 1
        /\ lastOp.arg = "postgres" => lastOp.res[1] = CreatePostgresTable
        /\ lastOp.arg = "sqlite3" => lastOp.res[1] = CreateSqliteTable
        /\ lastOp.arg \notin {"postgres", "sqlite3"} =>
               (lastOp.res[1] = CreateSqliteTable /\ lastOp.err = Nil)

\* C7 witness: the first CreateWorkerTable, for an unknown driver name, ran
\* the Sqlite DDL and made a Sqlite table.
C7_Witness ==
    /\ lastOp.op = "CreateWorkerTable" /\ lastOp.arg = "mysql"
    /\ lastOp.res = <<CreateSqliteTable>> /\ table = DriverSqlite

\* the hooks stored for the repo with the id r
StoredFor(r) == {i \in DOMAIN created : created[i].passed.repo_id = r}

\* C8: CountHooksForRepo(r) returns the number of stored hooks whose repo_id
\* is r's id, 0 and no error when there is none, and leaves the table as the
\* Creates left it; when the query fails it returns the error.
C8_CountHooksForRepo ==
    lastOp.op = "CountHooksForRepo" =>
        /\ Len(rows) = Len(created)
        /\ \A i \in DOMAIN rows : rows[i] = created[i].stored
        /\ ~lastOp.arg.fail =>
            /\ lastOp.err = Nil
            /\ lastOp.res = Cardinality(StoredFor(lastOp.arg.repo.id))
        /\ lastOp.arg.fail => lastOp.err = ErrTransport

\* C8 witness: three hooks are stored, one of them of repo 1, and the count
\* for repo 1 returned 1.
C8_Witness ==
    /\ lastOp.op = "CountHooksForRepo" /\ ~lastOp.arg.fail
    /\ lastOp.arg.repo.id = 1 /\ lastOp.res = 1 /\ Len(rows) = 3

\* exactly one of the parent keys of l is not zero
OneParent(l) == Cardinality({c \in ParentKeys : l[c] # 0}) = 1

Checks(s) ==
    << [bad |-> s.Driver = "", err |-> "no source driver provided"],
       [bad |-> s.Driver # "github" /\ s.Driver # "gitlab",
        err |-> "invalid source driver provided"],
       [bad |-> s.Address = <<>>, err |-> "no source address provided"],
       [bad |-> \A i \in 1..(Len(s.Address) - 2) :
                    <<s.Address[i], s.Address[i + 1], s.Address[i + 2]>> # <<":", "/", "/">>,
        err |-> "source address must be fully qualified (<scheme>://<host>)"],
       [bad |-> s.Address # <<>> /\ s.Address[Len(s.Address)] = "/",
        err |-> "source address must not have trailing slash"],
       [bad |-> s.ClientID = "", err |-> "no source client id provided"],
       [bad |-> s.ClientSecret = "", err |-> "no source client secret provided"],
       [bad |-> s.StatusContext = "", err |-> "no source status context provided"] >>

\* C11: Validate returns nil exactly when no check of the Setup fails, and
\* otherwise the error of the first failing check in the fixed order; the
\* Setup is as it was passed, and two Setups that differ in ServerAddress and
\* WebUIAddress alone get the same answer.
C11_ValidateReturnsFirstFailure ==
    lastOp.op = "Validate" =>
        LET failing == {i \in 1..8 : Checks(lastOp.arg)[i].bad}
        IN  /\ setup = lastOp.arg
            /\ (lastOp.err = Nil) = (failing = {})
            /\ failing # {} =>
                   \E i \in failing :
                       /\ \A j \in failing : i <= j
                       /\ lastOp.err = Checks(lastOp.arg)[i].err
            /\ (lastOp.err = Nil) =
                   /\ lastOp.arg.Driver \in {"github", "gitlab"}
                   /\ Checks(lastOp.arg)[4].bad = FALSE
                   /\ Checks(lastOp.arg)[5].bad = FALSE
                   /\ lastOp.arg.ClientID # ""
                   /\ lastOp.arg.ClientSecret # ""
                   /\ lastOp.arg.StatusContext # ""

\* C11 witness: the gitlab Setup with the address h://h and neither a server
\* nor a web UI address was validated and found valid.
C11_Witness ==
    /\ lastOp.op = "Validate" /\ lastOp.err = Nil
    /\ setup.Driver = "gitlab" /\ setup.Address = <<"h", ":", "/", "/", "h">>
    /\ setup.ServerAddress = "" /\ setup.WebUIAddress = ""

====
